---- MODULE Spec2Model ----
(***************************************************************************)
(* Model of the flight-data function app: function_app.http_trigger and    *)
(* the helpers of key_vault.py (get_credential, get_secret_client,         *)
(* get_secret, get_blob_service_client).                                   *)
(*                                                                         *)
(* Several invocations of http_trigger may run at once in one process      *)
(* (the host's thread pool); each is a worker whose position is pc.  The   *)
(* process-wide state is the environment and the two functools.cache       *)
(* caches.  Text is modelled by TLA+ strings (concatenation only); text    *)
(* whose characters matter (the path prefix) is a sequence of characters.  *)
(* Optional values are <<>> (None) and <<v>> (a value v).                  *)
(***************************************************************************)
EXTENDS Integers, Sequences, FiniteSets, TLC

VARIABLES
    env,                \* os.environ: a function from the keys present to their values
    credCache,          \* the cache of get_credential: None or Some(credential id)
    secretClientCache,  \* the cache of get_secret_client: None or Some(client)
    credsConstructed,   \* number of DefaultAzureCredential objects constructed so far
    clients,            \* history: every SecretClient and BlobServiceClient constructed so far, with its credential
    overlap,            \* history: some get_credential call missed the cache while another miss was still constructing
    started,            \* number of invocations started so far
    inv                 \* per worker: the invocation it runs (locals, position, calls issued, outcome)

vars == <<env, credCache, secretClientCache, credsConstructed, clients,
          overlap, started, inv>>

-----------------------------------------------------------------------------
(* Bounds *)

MaxInvocations == 3

\* Two threads of the host's pool: enough for every interleaving of one cache
\* miss with another call
Workers == {"t1", "t2"}

-----------------------------------------------------------------------------
(* Optional values and text *)

None == <<>>
Some(v) == <<v>>
Val(o) == o[1]

RECURSIVE Join(_)
Join(s) == IF s = <<>> THEN "" ELSE Head(s) \o Join(Tail(s))

\* str.rstrip('/'): drop every trailing "/"
RECURSIVE rstrip(_)
rstrip(s) ==
    IF s # <<>> /\ s[Len(s)] = "/" THEN rstrip(SubSeq(s, 1, Len(s) - 1)) ELSE s

\* Variant: None formatted as the empty text
FormatEmpty(o) == IF o = None THEN "" ELSE Val(o)

\* f"{value}" of an Optional[str]: None formats as the text None
Format(o) == IF o = None THEN "None" ELSE Val(o)

Digit(n) == <<"0", "1", "2", "3", "4", "5", "6", "7", "8", "9">>[n + 1]
Pad2(n) == Digit((n \div 10) % 10) \o Digit(n % 10)
Pad4(n) == Pad2(n \div 100) \o Pad2(n % 100)

\* datetime.strftime("%Y%m%dT%H%M%SZ")
strftime(t) ==
    Pad4(t.Y) \o Pad2(t.M) \o Pad2(t.D) \o "T" \o Pad2(t.h) \o Pad2(t.m) \o Pad2(t.s) \o "Z"

-----------------------------------------------------------------------------
(* Exceptions: a record [kind, msg]; Bases is the class hierarchy *)

Exc(kind, msg) == [kind |-> kind, msg |-> msg]

Bases(kind) ==
    CASE kind = "KeyError"              -> {"KeyError", "LookupError", "Exception"}
      [] kind = "ResourceNotFoundError" -> {"ResourceNotFoundError", "HttpResponseError", "AzureError", "Exception"}
      [] kind = "ClientAuthenticationError" -> {"ClientAuthenticationError", "HttpResponseError", "AzureError", "Exception"}
      [] kind = "ServiceRequestError"   -> {"ServiceRequestError", "AzureError", "Exception"}
      [] kind = "HTTPStatusError"       -> {"HTTPStatusError", "HTTPError", "Exception"}
      [] kind = "ConnectError"          -> {"ConnectError", "NetworkError", "TransportError", "RequestError", "HTTPError", "Exception"}
      [] kind = "ReadTimeout"           -> {"ReadTimeout", "TimeoutException", "TransportError", "RequestError", "HTTPError", "Exception"}
      [] kind = "InvalidURL"            -> {"InvalidURL", "Exception"}
      [] OTHER                          -> {kind, "Exception"}

IsInstance(e, class) == class \in Bases(e.kind)

\* str(e): a KeyError prints the repr of its key, the others their message
StrExc(e) == IF e.kind = "KeyError" THEN "'" \o e.msg \o "'" ELSE e.msg

\* Variant: os.environ.get(key, ""), an absent key reads as the empty text
LookupOrEmpty(key) ==
    [ok |-> TRUE, val |-> IF key \in DOMAIN env THEN env[key] ELSE ""]

\* os.environ[key]
Lookup(key) ==
    IF key \in DOMAIN env THEN [ok |-> TRUE, val |-> env[key]]
    ELSE [ok |-> FALSE, exc |-> Exc("KeyError", key)]

\* os.getenv(key, default)
getenv(key, default) == IF key \in DOMAIN env THEN env[key] ELSE default

-----------------------------------------------------------------------------
(* Inputs *)

ApiUrl == "https://api.example.com"
Container == "test-container"
VaultUrl == "https://test-vault.vault.azure.net/"
Account == "teststorage"
SecretValue == "test-api-key"
Payload == "{\"flights\": []}"
DefaultPrefix == <<"f", "l", "i", "g", "h", "t", "s">>

Prefixes == { DefaultPrefix, <<>>, <<"r", "a", "w", "/">>, <<"r", "a", "w", "/", "/">> }

Clocks == { [Y |-> 2023, M |-> 11, D |-> 10, h |-> 12, m |-> 0, s |-> 0],
            [Y |-> 2024, M |-> 1, D |-> 5, h |-> 3, m |-> 7, s |-> 9] }

EnvKeys == {"API_URL", "ADLS_FILE_SYSTEM", "ADLS_PATH_PREFIX", "KEY_VAULT_URL",
            "STORAGE_ACCOUNT_NAME"}

Fixed(k) ==
    CASE k = "API_URL" -> ApiUrl
      [] k = "ADLS_FILE_SYSTEM" -> Container
      [] k = "KEY_VAULT_URL" -> VaultUrl
      [] k = "STORAGE_ACCOUNT_NAME" -> Account
      [] OTHER -> ""

\* Every environment: any subset of the keys present, any of the prefixes
Environments ==
    { [k \in present |-> IF k = "ADLS_PATH_PREFIX" THEN px ELSE Fixed(k)] :
        present \in SUBSET EnvKeys, px \in Prefixes }

\* What the secret store may answer to get_secret(name)
SecretStoreAnswers ==
    { [ok |-> TRUE, value |-> SecretValue],
      [ok |-> FALSE, exc |-> Exc("ResourceNotFoundError", "Secret not found")],
      [ok |-> FALSE, exc |-> Exc("ServiceRequestError", "Connection failed")],
      [ok |-> FALSE, exc |-> Exc("ClientAuthenticationError", "Forbidden")] }

\* What client.get(url) followed by raise_for_status() may do
FetchAnswers ==
    { [ok |-> TRUE, text |-> Payload],
      [ok |-> FALSE, exc |-> Exc("HTTPStatusError", "Server error '503 Service Unavailable'")],
      [ok |-> FALSE, exc |-> Exc("ConnectError", "Connection failed")],
      [ok |-> FALSE, exc |-> Exc("ReadTimeout", "The read operation timed out")],
      [ok |-> FALSE, exc |-> Exc("InvalidURL", "Invalid non-printable ASCII character in URL")] }

\* Where the storage stage may fail once the service client exists
StorageAnswers ==
    { [ok |-> TRUE],
      [ok |-> FALSE, at |-> "container", exc |-> Exc("ValueError", "Please specify a container name.")],
      [ok |-> FALSE, at |-> "blob", exc |-> Exc("ValueError", "Please specify a blob name.")],
      [ok |-> FALSE, at |-> "upload", exc |-> Exc("Exception", "Storage error")] }

-----------------------------------------------------------------------------
(* Per-invocation state *)

Call(op, arg) == [op |-> op, arg |-> arg]

Response(status, body) == [status_code |-> status, body |-> body]

Fresh ==
    [ pc |-> "idle", endpoint_url |-> "", container_name |-> "", path_prefix |-> <<>>,
      got_secret |-> FALSE, api_key |-> None, client_exc |-> None, store_exc |-> None,
      data |-> None, fetch_exc |-> None, cred |-> None, blob_service_client |-> None,
      blob_name |-> "", now |-> None, persist_exc |-> None,
      calls |-> <<>>, response |-> None, raised |-> None ]

Init ==
    /\ env \in Environments
    /\ credCache = None
    /\ secretClientCache = None
    /\ credsConstructed = 0
    /\ clients = {}
    /\ overlap = FALSE
    /\ started = 0
    /\ inv = [w \in Workers |-> Fresh]

Set(w, r) == inv' = [inv EXCEPT ![w] = r]

Respond(r, status, body) == [r EXCEPT !.pc = "done", !.response = Some(Response(status, body))]

Escape(r, e) == [r EXCEPT !.pc = "done", !.raised = Some(e)]

-----------------------------------------------------------------------------
(* function_app.http_trigger, lines 18-26: configuration *)

\* Variant: the container identifier read before the endpoint
ConfigKeysSwapped == <<"ADLS_FILE_SYSTEM", "API_URL">>

\* The required keys in the order the handler reads them
ConfigKeys == <<"API_URL", "ADLS_FILE_SYSTEM">>

\* The first required key that is absent (0 when none is)
FirstMissing ==
    IF \E i \in 1..Len(ConfigKeys) : ~Lookup(ConfigKeys[i]).ok
    THEN CHOOSE i \in 1..Len(ConfigKeys) :
            /\ ~Lookup(ConfigKeys[i]).ok
            /\ \A j \in 1..(i - 1) : Lookup(ConfigKeys[j]).ok
    ELSE 0

ConfigErrorResponse(e) == Response(500, "Configuration error: Missing " \o StrExc(e))

\* A worker starts an invocation: reads the configuration, answers 500 at the
\* first missing key, and goes on to the secret otherwise.
Start(w) ==
    /\ inv[w].pc \in {"idle", "done"}
    /\ started < MaxInvocations
    /\ started' = started + 1
    /\ IF FirstMissing # 0
       THEN LET e == Lookup(ConfigKeys[FirstMissing]).exc
                rsp == ConfigErrorResponse(e)
            IN Set(w, Respond(Fresh, rsp.status_code, rsp.body))
       ELSE Set(w, [Fresh EXCEPT
                      !.pc = "secret",
                      !.endpoint_url = Lookup("API_URL").val \o "/flights",
                      !.container_name = Lookup("ADLS_FILE_SYSTEM").val,
                      !.path_prefix = getenv("ADLS_PATH_PREFIX", DefaultPrefix)])
    /\ UNCHANGED <<env, credCache, secretClientCache, credsConstructed, clients, overlap>>

-----------------------------------------------------------------------------
(* key_vault.get_credential, under functools.cache *)

\* Variant: no caching, every call misses
CacheNeverHits(cache) == FALSE

\* The cache lookup of functools.cache: a hit when a value is stored
CacheHit(cache) == cache # None

AfterCred(pc) == IF pc \in {"sc_cred", "sc_new"} THEN "sc_make" ELSE "bs_make"

\* get_credential() is entered: a hit returns the cached instance; a miss leaves
\* the caller constructing (other threads may run meanwhile).
CredLookup(w) ==
    /\ inv[w].pc \in {"sc_cred", "bs_cred"}
    /\ IF CacheHit(credCache)
       THEN /\ Set(w, [inv[w] EXCEPT !.pc = AfterCred(inv[w].pc), !.cred = credCache])
            /\ UNCHANGED overlap
       ELSE /\ Set(w, [inv[w] EXCEPT !.pc = IF inv[w].pc = "sc_cred" THEN "sc_new" ELSE "bs_new"])
            /\ overlap' = (overlap \/ \E v \in Workers \ {w} : inv[v].pc \in {"sc_new", "bs_new"})
    /\ UNCHANGED <<env, credCache, secretClientCache, credsConstructed, clients, started>>

\* The miss completes: DefaultAzureCredential(...) is constructed, stored in the
\* cache (replacing whatever another thread stored meanwhile) and returned.
CredConstruct(w) ==
    /\ inv[w].pc \in {"sc_new", "bs_new"}
    /\ credsConstructed' = credsConstructed + 1
    /\ credCache' = Some(credsConstructed + 1)
    /\ Set(w, [inv[w] EXCEPT !.pc = AfterCred(inv[w].pc), !.cred = Some(credsConstructed + 1)])
    /\ UNCHANGED <<env, secretClientCache, clients, overlap, started>>

-----------------------------------------------------------------------------
(* key_vault.get_secret and get_secret_client *)

\* Variant: a handler for the store's errors only, "except AzureError"
GetSecretCatchesAzureOnly(e) == IsInstance(e, "AzureError")

\* get_secret's handler, "except Exception": the exception is logged and None returned
GetSecretCatches(e) == IsInstance(e, "Exception")

SecretFailed(r, e) ==
    IF GetSecretCatches(e)
    THEN [r EXCEPT !.pc = "fetch", !.got_secret = TRUE, !.api_key = None]
    ELSE Escape(r, e)

\* get_secret("api-key") calls get_secret_client(): a cached client is returned;
\* otherwise KEY_VAULT_URL is read, and its absence raises KeyError out of
\* get_secret_client (recorded in client_exc) into get_secret's handler.
SecretClientLookup(w) ==
    /\ inv[w].pc = "secret"
    /\ IF CacheHit(secretClientCache)
       THEN Set(w, [inv[w] EXCEPT !.pc = "secret_req"])
       ELSE IF Lookup("KEY_VAULT_URL").ok
            THEN Set(w, [inv[w] EXCEPT !.pc = "sc_cred"])
            ELSE LET e == Lookup("KEY_VAULT_URL").exc
                 IN Set(w, SecretFailed([inv[w] EXCEPT !.client_exc = Some(e)], e))
    /\ UNCHANGED <<env, credCache, secretClientCache, credsConstructed, clients, overlap, started>>

\* SecretClient(vault_url, credential) is constructed and cached
MakeSecretClient(w) ==
    /\ inv[w].pc = "sc_make"
    /\ LET c == [client |-> "secret", url |-> Lookup("KEY_VAULT_URL").val, cred |-> Val(inv[w].cred)]
       IN /\ secretClientCache' = Some(c)
          /\ clients' = clients \cup {c}
    /\ Set(w, [inv[w] EXCEPT !.pc = "secret_req", !.cred = None])
    /\ UNCHANGED <<env, credCache, credsConstructed, overlap, started>>

\* secret_client.get_secret(name): the one request to the secret store
SecretRequest(w) ==
    /\ inv[w].pc = "secret_req"
    /\ \E a \in SecretStoreAnswers :
         LET r == [inv[w] EXCEPT !.calls = Append(@, Call("secret_read", "api-key"))]
         IN IF a.ok
            THEN Set(w, [r EXCEPT !.pc = "fetch", !.got_secret = TRUE, !.api_key = Some(a.value)])
            ELSE Set(w, SecretFailed([r EXCEPT !.store_exc = Some(a.exc)], a.exc))
    /\ UNCHANGED <<env, credCache, secretClientCache, credsConstructed, clients, overlap, started>>

-----------------------------------------------------------------------------
(* function_app.http_trigger, lines 28-38: the fetch stage *)

\* endpoint_url + f"?key={api_key}"
FetchUrl(endpoint_url, api_key) == endpoint_url \o "?key=" \o Format(api_key)

\* Variant: a handler for status errors only, "except httpx.HTTPStatusError"
FetchCatchesStatusOnly(e) == IsInstance(e, "HTTPStatusError")

\* The fetch stage's handler, "except httpx.HTTPError"
FetchCatches(e) == IsInstance(e, "HTTPError")

\* Variant: the fetch failure answered as an internal error
FetchErrorResponse500 == Response(500, "Failed to fetch data from endpoint")

FetchErrorResponse == Response(502, "Failed to fetch data from endpoint")

\* Variant: the failure is logged but the handler does not return
FetchFailedFallsThrough(r, e) == [r EXCEPT !.pc = "persist"]

\* An exception of the fetch stage: caught, logged and answered 502, or not caught
FetchFailed(r, e) ==
    IF FetchCatches(e)
    THEN Respond(r, FetchErrorResponse.status_code, FetchErrorResponse.body)
    ELSE Escape(r, e)

\* client.get(url), raise_for_status(), response.text
Fetch(w) ==
    /\ inv[w].pc = "fetch"
    /\ \E a \in FetchAnswers :
         LET url == FetchUrl(inv[w].endpoint_url, inv[w].api_key)
             r == [inv[w] EXCEPT !.endpoint_url = url, !.calls = Append(@, Call("http_get", url))]
         IN IF a.ok
            THEN Set(w, [r EXCEPT !.pc = "persist", !.data = Some(a.text)])
            ELSE Set(w, FetchFailed([r EXCEPT !.fetch_exc = Some(a.exc)], a.exc))
    /\ UNCHANGED <<env, credCache, secretClientCache, credsConstructed, clients, overlap, started>>

-----------------------------------------------------------------------------
(* function_app.http_trigger, lines 40-59: the persist stage *)

\* Variant: a handler for the storage service's errors only, "except AzureError"
PersistCatchesAzureOnly(e) == IsInstance(e, "AzureError")

\* The persist stage's handler, "except Exception"
PersistCatches(e) == IsInstance(e, "Exception")

PersistErrorResponse(e) == Response(500, "Failed to save data to storage: " \o StrExc(e))

PersistFailed(r, e) ==
    LET x == [r EXCEPT !.persist_exc = Some(e)]
    IN IF PersistCatches(e)
       THEN Respond(x, PersistErrorResponse(e).status_code, PersistErrorResponse(e).body)
       ELSE Escape(x, e)

\* Variant: a single trailing slash removed
BlobNameStripOne(path_prefix, timestamp) ==
    Join(IF path_prefix # <<>> /\ path_prefix[Len(path_prefix)] = "/"
         THEN SubSeq(path_prefix, 1, Len(path_prefix) - 1) ELSE path_prefix)
        \o "/" \o timestamp \o ".json"

\* f"{path_prefix.rstrip('/')}/{timestamp}.json"
BlobName(path_prefix, timestamp) == Join(rstrip(path_prefix)) \o "/" \o timestamp \o ".json"

SuccessResponse(container_name, blob_name) ==
    Response(200, "Data saved successfully to " \o container_name \o "/" \o blob_name)

\* get_blob_service_client() is entered: STORAGE_ACCOUNT_NAME is read, and its
\* absence raises KeyError into the persist stage's handler.
BlobServiceClientLookup(w) ==
    /\ inv[w].pc = "persist"
    /\ IF Lookup("STORAGE_ACCOUNT_NAME").ok
       THEN Set(w, [inv[w] EXCEPT !.pc = "bs_cred"])
       ELSE Set(w, PersistFailed(inv[w], Lookup("STORAGE_ACCOUNT_NAME").exc))
    /\ UNCHANGED <<env, credCache, secretClientCache, credsConstructed, clients, overlap, started>>

\* BlobServiceClient(account_url, credential) is constructed (never cached)
MakeBlobServiceClient(w) ==
    /\ inv[w].pc = "bs_make"
    /\ LET url == "https://" \o Lookup("STORAGE_ACCOUNT_NAME").val \o ".blob.core.windows.net"
           c == [client |-> "blob", url |-> url, cred |-> Val(inv[w].cred)]
       IN /\ clients' = clients \cup {c}
          /\ Set(w, [inv[w] EXCEPT !.pc = "upload", !.cred = None, !.blob_service_client = Some(c)])
    /\ UNCHANGED <<env, credCache, secretClientCache, credsConstructed, overlap, started>>

\* Container handle, timestamp and blob name, blob handle, upload, response
Upload(w) ==
    /\ inv[w].pc = "upload"
    /\ \E a \in StorageAnswers, t \in Clocks :
         LET name == BlobName(inv[w].path_prefix, strftime(t))
             named == [inv[w] EXCEPT !.now = Some(t), !.blob_name = name]
             wrote == [named EXCEPT !.calls =
                         Append(@, Call("blob_write", inv[w].container_name \o "/" \o name))]
         IN IF a.ok
            THEN LET rsp == SuccessResponse(inv[w].container_name, name)
                 IN Set(w, Respond(wrote, rsp.status_code, rsp.body))
            ELSE IF a.at = "container" THEN Set(w, PersistFailed(inv[w], a.exc))
            ELSE IF a.at = "blob" THEN Set(w, PersistFailed(named, a.exc))
            ELSE Set(w, PersistFailed(wrote, a.exc))
    /\ UNCHANGED <<env, credCache, secretClientCache, credsConstructed, clients, overlap, started>>

-----------------------------------------------------------------------------

Next ==
    \E w \in Workers :
        \/ Start(w)
        \/ SecretClientLookup(w)
        \/ CredLookup(w)
        \/ CredConstruct(w)
        \/ MakeSecretClient(w)
        \/ SecretRequest(w)
        \/ Fetch(w)
        \/ BlobServiceClientLookup(w)
        \/ MakeBlobServiceClient(w)
        \/ Upload(w)

Spec == Init /\ [][Next]_vars

-----------------------------------------------------------------------------
(* Vocabulary of the properties *)

Done(w) == inv[w].pc = "done"

\* The operations an invocation issued, in order
Ops(w) == [i \in DOMAIN inv[w].calls |-> inv[w].calls[i].op]

Count(w, op) == Cardinality({i \in DOMAIN inv[w].calls : inv[w].calls[i].op = op})

Answered(w, status, body) == inv[w].response = Some(Response(status, body))

Status(w) == Val(inv[w].response).status_code

\* The text each clock of Clocks has in the form YYYYMMDDTHHMMSSZ
ExpectedStamp(t) ==
    CASE t = [Y |-> 2023, M |-> 11, D |-> 10, h |-> 12, m |-> 0, s |-> 0] -> "20231110T120000Z"
      [] t = [Y |-> 2024, M |-> 1, D |-> 5, h |-> 3, m |-> 7, s |-> 9] -> "20240105T030709Z"

\* The text of each prefix of Prefixes, as it is and without its trailing slashes
PrefixText(p) ==
    CASE p = DefaultPrefix -> "flights"
      [] p = <<>> -> ""
      [] p = <<"r", "a", "w", "/">> -> "raw/"
      [] p = <<"r", "a", "w", "/", "/">> -> "raw//"

StrippedText(p) ==
    CASE p = DefaultPrefix -> "flights"
      [] p = <<>> -> ""
      [] p = <<"r", "a", "w", "/">> -> "raw"
      [] p = <<"r", "a", "w", "/", "/">> -> "raw"

\* The prefix the environment configures: ADLS_PATH_PREFIX, or flights when unset
ConfiguredPrefix ==
    IF "ADLS_PATH_PREFIX" \in DOMAIN env THEN env["ADLS_PATH_PREFIX"] ELSE DefaultPrefix

HttpOrTransport == {"HTTPStatusError", "ConnectError", "ReadTimeout"}

-----------------------------------------------------------------------------
\* C1: when the fetch fails with an HTTP-status or a transport error, the
\* invocation answers 502 with the body "Failed to fetch data from endpoint",
\* builds no storage client and attempts no blob write.
C1_FetchFailure502 ==
    \A w \in Workers :
        (inv[w].fetch_exc # None /\ Val(inv[w].fetch_exc).kind \in HttpOrTransport)
        => /\ Done(w)
           /\ Answered(w, 502, "Failed to fetch data from endpoint")
           /\ inv[w].raised = None
           /\ inv[w].blob_service_client = None
           /\ Count(w, "blob_write") = 0

C1_Witness ==
    \E w \in Workers :
        /\ Done(w)
        /\ inv[w].fetch_exc # None
        /\ Val(inv[w].fetch_exc).kind = "ReadTimeout"
        /\ Count(w, "http_get") = 1

\* C2: when API_URL or ADLS_FILE_SYSTEM is absent the invocation answers 500,
\* the body names the first missing key (API_URL before ADLS_FILE_SYSTEM), and
\* it makes no outbound call: no secret read, no GET, no blob write.
C2_MissingConfig500 ==
    \A w \in Workers :
        inv[w].pc # "idle" =>
            /\ "API_URL" \notin DOMAIN env =>
                  /\ Answered(w, 500, "Configuration error: Missing 'API_URL'")
                  /\ inv[w].calls = <<>>
                  /\ inv[w].raised = None
            /\ ("API_URL" \in DOMAIN env /\ "ADLS_FILE_SYSTEM" \notin DOMAIN env) =>
                  /\ Answered(w, 500, "Configuration error: Missing 'ADLS_FILE_SYSTEM'")
                  /\ inv[w].calls = <<>>
                  /\ inv[w].raised = None

C2_Witness ==
    \E w \in Workers :
        /\ Done(w)
        /\ "API_URL" \notin DOMAIN env
        /\ "ADLS_FILE_SYSTEM" \notin DOMAIN env
        /\ inv[w].response # None

\* C3: when the fetch succeeded and the persist stage raises (building the
\* storage client, missing STORAGE_ACCOUNT_NAME included, getting the container
\* or blob handle, or writing), the invocation answers 500 with the body
\* "Failed to save data to storage: " followed by the error's text, and the
\* exception does not escape.
C3_PersistFailure500 ==
    \A w \in Workers :
        (inv[w].data # None /\ inv[w].persist_exc # None) =>
            LET e == Val(inv[w].persist_exc)
                text == IF e.kind = "KeyError" THEN "'STORAGE_ACCOUNT_NAME'" ELSE e.msg
            IN /\ Done(w)
               /\ Answered(w, 500, "Failed to save data to storage: " \o text)
               /\ inv[w].raised = None

C3_Witness ==
    \E w \in Workers :
        /\ Done(w)
        /\ inv[w].persist_exc = Some(Exc("KeyError", "STORAGE_ACCOUNT_NAME"))
        /\ inv[w].response # None

-----------------------------------------------------------------------------
\* C4 as claimed: an invocation that answers 200 wrote the blob named
\* "{prefix}/{timestamp}.json" with prefix exactly the value of
\* ADLS_PATH_PREFIX (flights when unset) and timestamp the clock as
\* YYYYMMDDTHHMMSSZ.
C4_Original ==
    \A w \in Workers :
        (Done(w) /\ inv[w].response # None /\ Status(w) = 200) =>
            inv[w].blob_name =
                PrefixText(ConfiguredPrefix) \o "/" \o ExpectedStamp(Val(inv[w].now)) \o ".json"

\* C4 amended: an invocation whose fetch and write both succeed answers 200,
\* and the blob it wrote is named "{prefix}/{timestamp}.json" with prefix the
\* value of ADLS_PATH_PREFIX without its trailing slashes (flights when unset,
\* empty when the value is empty or only slashes).
C4_BlobNameStripped ==
    \A w \in Workers :
        (Done(w) /\ inv[w].data # None /\ inv[w].persist_exc = None) =>
            LET name == StrippedText(ConfiguredPrefix) \o "/"
                            \o ExpectedStamp(Val(inv[w].now)) \o ".json"
            IN /\ inv[w].response # None
               /\ Status(w) = 200
               /\ inv[w].blob_name = name
               /\ inv[w].calls[Len(inv[w].calls)] = Call("blob_write", "test-container/" \o name)

C4_Witness ==
    \E w \in Workers :
        /\ Done(w)
        /\ inv[w].response # None
        /\ Status(w) = 200
        /\ ConfiguredPrefix = <<"r", "a", "w", "/", "/">>
        /\ inv[w].blob_name = "raw/20240105T030709Z.json"

\* C5 as claimed: under every interleaving the credential is constructed at
\* most once, and all the clients built hold the same credential.
C5_Original ==
    /\ credsConstructed <= 1
    /\ Cardinality({c.cred : c \in clients}) <= 1

\* C5 amended: a get_credential call constructs a credential only when it found
\* the cache empty, so at most one is constructed per thread calling at once;
\* and as long as no call misses the cache while another miss is still
\* constructing, one credential is constructed and every client built holds it.
C5_OncePerOverlap ==
    /\ credsConstructed <= Cardinality(Workers)
    /\ \A c \in clients : c.cred \in 1..credsConstructed
    /\ credCache # None => Val(credCache) \in 1..credsConstructed
    /\ ~overlap =>
          /\ credsConstructed <= 1
          /\ \A c \in clients : credCache = Some(c.cred)

C5_Witness ==
    /\ ~overlap
    /\ credsConstructed = 1
    /\ \E c, d \in clients : c.client = "secret" /\ d.client = "blob" /\ c.cred = d.cred
    /\ started = MaxInvocations

-----------------------------------------------------------------------------
RequiredKeys == {"API_URL", "ADLS_FILE_SYSTEM", "KEY_VAULT_URL", "STORAGE_ACCOUNT_NAME"}

\* C6 as claimed: with any of the four required keys absent, an invocation fails
\* and makes no network call: no secret read, no GET, no blob write.
C6_Original ==
    \A w \in Workers :
        (inv[w].pc # "idle" /\ RequiredKeys \ DOMAIN env # {}) =>
            /\ inv[w].calls = <<>>
            /\ Done(w) => (inv[w].response # None /\ Status(w) # 200)

\* C6 amended: with API_URL or ADLS_FILE_SYSTEM absent the invocation answers
\* 500 without any network call; with STORAGE_ACCOUNT_NAME absent it makes no
\* blob write and does not answer 200 (the secret read and the GET still
\* happen); with KEY_VAULT_URL absent it makes no secret-store request (the GET
\* and the blob write still happen).
C6_MissingKeyEffects ==
    \A w \in Workers :
        inv[w].pc # "idle" =>
            /\ ({"API_URL", "ADLS_FILE_SYSTEM"} \ DOMAIN env # {}) =>
                  /\ inv[w].calls = <<>>
                  /\ inv[w].response # None
                  /\ Status(w) = 500
            /\ "STORAGE_ACCOUNT_NAME" \notin DOMAIN env =>
                  /\ Count(w, "blob_write") = 0
                  /\ inv[w].response # None => Status(w) # 200
            /\ "KEY_VAULT_URL" \notin DOMAIN env => Count(w, "secret_read") = 0

C6_Witness ==
    \E w \in Workers :
        /\ Done(w)
        /\ "STORAGE_ACCOUNT_NAME" \notin DOMAIN env
        /\ "KEY_VAULT_URL" \in DOMAIN env
        /\ Ops(w) = <<"secret_read", "http_get">>
        /\ inv[w].response # None
        /\ Status(w) = 500

-----------------------------------------------------------------------------
\* C7: get_secret never raises: it returns the secret's value when the lookup
\* succeeds, and None when the store request fails or when get_secret_client
\* raises KeyError because KEY_VAULT_URL is missing.
C7_GetSecretNeverRaises ==
    \A w \in Workers :
        /\ (inv[w].client_exc # None \/ inv[w].store_exc # None) =>
              /\ inv[w].got_secret
              /\ inv[w].api_key = None
              /\ inv[w].raised \in {None, inv[w].fetch_exc}
        /\ (inv[w].got_secret /\ inv[w].client_exc = None /\ inv[w].store_exc = None) =>
              inv[w].api_key = Some("test-api-key")
        /\ (inv[w].got_secret /\ "KEY_VAULT_URL" \notin DOMAIN env) =>
              inv[w].client_exc = Some(Exc("KeyError", "KEY_VAULT_URL"))
        /\ (inv[w].pc \in {"persist", "bs_cred", "bs_new", "bs_make", "upload"}
              \/ (inv[w].calls # <<>> /\ inv[w].pc \in {"fetch", "done"})) => inv[w].got_secret

C7_Witness ==
    \E w, v \in Workers :
        /\ inv[w].got_secret
        /\ inv[w].client_exc = Some(Exc("KeyError", "KEY_VAULT_URL"))
        /\ inv[w].api_key = None
        /\ inv[v].got_secret

C7_WitnessStore ==
    \E w, v \in Workers :
        /\ inv[w].store_exc = Some(Exc("ClientAuthenticationError", "Forbidden"))
        /\ inv[w].got_secret
        /\ inv[v].api_key = Some("test-api-key")

-----------------------------------------------------------------------------
\* C9: an invocation issues its calls in the order secret read, GET, blob
\* write, each at most once; the blob write only after its GET succeeded; and
\* an invocation that answers 200 issued exactly one GET and one blob write.
C9_StageOrder ==
    \A w \in Workers :
        /\ Ops(w) \in { <<>>, <<"secret_read">>, <<"http_get">>,
                        <<"secret_read", "http_get">>, <<"http_get", "blob_write">>,
                        <<"secret_read", "http_get", "blob_write">> }
        /\ Count(w, "blob_write") > 0 => (inv[w].data # None /\ inv[w].fetch_exc = None)
        /\ Count(w, "http_get") > 0 => inv[w].got_secret
        /\ (inv[w].response # None /\ Status(w) = 200) =>
              (Count(w, "http_get") = 1 /\ Count(w, "blob_write") = 1)

C9_Witness ==
    \E w \in Workers :
        /\ Done(w)
        /\ inv[w].response # None
        /\ Status(w) = 200
        /\ Ops(w) = <<"secret_read", "http_get", "blob_write">>

-----------------------------------------------------------------------------
\* C10 as claimed: every finished invocation returned a response with status
\* 200, 500 or 502, whatever the stages did; no exception escaped.
C10_Original ==
    \A w \in Workers :
        Done(w) =>
            /\ inv[w].raised = None
            /\ inv[w].response # None
            /\ Status(w) \in {200, 500, 502}

\* C10 amended: every finished invocation either returned one response with
\* status 200, 500 or 502, or let an exception escape; the exception that
\* escapes is one the fetch raised that is neither an HTTP-status nor a
\* transport error, never one of the configuration, secret or persist stages.
C10_ResponseOrFetchEscape ==
    \A w \in Workers :
        Done(w) =>
            \/ /\ inv[w].raised = None
               /\ inv[w].response # None
               /\ Status(w) \in {200, 500, 502}
            \/ /\ inv[w].response = None
               /\ inv[w].raised # None
               /\ inv[w].raised = inv[w].fetch_exc
               /\ Val(inv[w].raised).kind \notin HttpOrTransport
               /\ inv[w].persist_exc = None

C10_Witness ==
    \E w, v \in Workers :
        /\ Done(w)
        /\ inv[w].raised = Some(Exc("InvalidURL", "Invalid non-printable ASCII character in URL"))
        /\ Done(v)
        /\ inv[v].response # None
        /\ Status(v) = 200

====
